---- MODULE Spec2Model ----
(***************************************************************************)
(* A model of the DocuShare client session of PyDocuShare                  *)
(* (src/docushare/docushare.py): the login state machine with its          *)
(* recursive retries and its use of the secret store, the logged-in check  *)
(* of the resource operations, the metadata cache, and close().            *)
(*                                                                         *)
(* Spec      the session against a site that answers as it likes.          *)
(* SiteSpec  a logged-in session against a site that answers every request *)
(*           with one given response: http_get(), object(), download().    *)
(* HandleSpec  the functions of handles and URLs: Handle.identifier,       *)
(*           Handle.from_str, DocuShare.url.                               *)
(* TreeSpec  a logged-in session that has loaded the Collections of a      *)
(*           site: the handle tree, its leaves, attempts to change it,     *)
(*           CollectionObject.download.                                    *)
(***************************************************************************)
EXTENDS Integers, Sequences, FiniteSets, TLC

(* ----------------------------- bounds --------------------------------- *)

\* Largest retry_count a caller passes to login().
MaxRetry == 2

\* Handle numbers 0..MaxHandleNumber are used along with a few large ones.
MaxHandleNumber == 12

\* The most objects a Collection of the site lists.
MaxChildren == 2
RecursionLimit == 4

(* ----------------------------- values --------------------------------- *)

None == "None"

\* The usernames that are typed at the prompt or stored, and the passwords
\* that are typed or stored.
Users == {"alice", "bob"}
Passwords == {"pw1", "pw2"}

\* What the callers pass to login(): a username or None, a PasswordOption
\* or a password.
UsernameArguments == {"alice", None}
ExplicitPasswords == {"pw1"}

\* class PasswordOption
ASK == "ASK"
USE_STORED == "USE_STORED"
PasswordOption == {ASK, USE_STORED}

\* class HandleType
HandleType == {"Collection", "Document", "Version"}

\* class Handle: a type and a number. The handles the callers use.
Handles == [type : HandleType, number : {0}]

\* What a caller may pass where a handle is expected: a Handle (or its
\* string), or a string Handle.from_str rejects.
BadHandle == [type |-> "Malformed", number |-> 0]
HandleInputs == Handles \cup {BadHandle}

\* The cookies the site sets.
JSESSIONID == "JSESSIONID"
AmberUser == "AmberUser"

(* ------------------------------ state --------------------------------- *)

VARIABLES
    cookies,     \* self.__session.cookies: the names in the cookie jar
    username,    \* self.__username
    dsobjects,   \* self.__dsobjects: Handle -> cached object
    keyring,     \* the secret store's entries for base_url: user -> password
    stack,       \* the frames of login() in progress, innermost last
    pc,          \* "idle": no call in progress; "attempt", "record": where
                 \* the innermost frame of login() stands; "done": the call
                 \* has ended and the caller looks at what it did
    call,        \* the operation the caller invoked last, with its arguments
    outcome,     \* how that operation ended: "returned" or the error raised
    result,      \* what it returned
    requests,    \* the HTTP requests it issued, in order
    prompts,     \* the password prompts it showed
    accepted,    \* the credential the site accepted in it, if any
    created,     \* per handle, the objects constructed for it so far
    wasLoggedIn, \* is_logged_in as it was when the operation was called
    keyringFailed, \* whether a call of the keyring module failed in it
    storeCalls,  \* the calls of the keyring module made in it: "get", "set",
                 \* "delete"
    site,        \* the site: whether it answers every request with one
                 \* response, and that response
    files,       \* the files at the destination of the last download:
                 \* path -> content
    tree         \* the handle tree the caller holds: node -> what it holds

vars == <<cookies, username, dsobjects, keyring, stack, pc, call, outcome,
          result, requests, prompts, accepted, created, wasLoggedIn,
          keyringFailed, storeCalls, site, files, tree>>

\* DocuShare.is_logged_in
is_logged_in == AmberUser \in cookies

NoCall == [op |-> "init", username |-> None, password |-> None,
           retry_count |-> 0, hdl |-> BadHandle, path_like |-> TRUE]

LoginCall(u, p, rc) == [NoCall EXCEPT !.op = "login", !.username = u,
                                      !.password = p, !.retry_count = rc]

NoObject == [id |-> 0, handle |-> BadHandle]

(* --------------------------- secret store ----------------------------- *)

\* A __get_password that lets the keyring's failure through.
GetPasswordRaises(store, user, fails) ==
    [password |-> IF fails THEN None ELSE store[user], raised |-> fails]

\* DocuShare.__get_password: the stored password, None when there is none
\* or when the keyring fails; the failure is swallowed.
GetPassword(store, user, fails) ==
    [password |-> IF fails THEN None ELSE store[user], raised |-> FALSE]

\* DocuShare.__set_password: stores the password unless the keyring fails.
SetPassword(store, user, password, fails) ==
    [store |-> IF fails THEN store ELSE [store EXCEPT ![user] = password],
     raised |-> FALSE]

\* DocuShare.__delete_password: deletes the entry unless the keyring fails
\* (deleting a missing entry fails too); the failure is swallowed.
DeletePassword(store, user, fails) ==
    [store |-> IF fails \/ store[user] = None THEN store
               ELSE [store EXCEPT ![user] = None],
     raised |-> FALSE]

(* ------------------------------ login --------------------------------- *)

\* The locals of one activation of login().
Frame(u, p, rc, eu, ep, asked) ==
    [username |-> u, password |-> p, retry_count |-> rc,
     entered_username |-> eu, entered_password |-> ep, prompted |-> asked]

\* login(), lines 355-359: the username given, or the one typed.
EnteredUsername(u, typedUser) == IF u = None THEN typedUser ELSE u

\* login(), lines 363-372: whether the password is asked for.
Prompted(p, stored) ==
    \/ p = ASK
    \/ p = USE_STORED /\ stored = None

\* login(), lines 363-372: the password of this attempt.
EnteredPassword(p, stored, typedPassword) ==
    IF Prompted(p, stored) THEN typedPassword
    ELSE IF p = USE_STORED THEN stored
    ELSE p

\* A login() that leaves the cookie jar as it is.
KeptCookies == cookies

\* login(), lines 352-353.
ClearedCookies == {}
ClearedUsername == None

\* An exception leaves login(): no frame catches it.
Raise(error) ==
    /\ stack' = <<>>
    /\ pc' = "done"
    /\ outcome' = error

\* What the user may type at the username prompt of line 357; nothing is
\* typed when the username is given.
Typed(u) == IF u = None THEN Users ELSE {u}

\* Whether a call of the keyring module fails. The keyring is called only
\* under USE_STORED.
KeyringFailures(p) == IF p = USE_STORED THEN BOOLEAN ELSE {FALSE}

\* A login() that goes to the secret store whatever the password argument.
AlwaysUsesStore(p) == TRUE

\* login(), lines 364, 414, 435: password == PasswordOption.USE_STORED, the
\* condition of every call of __get_password, __delete_password and
\* __set_password.
UsesStore(p) == p = USE_STORED

\* login(), lines 352-372, for the arguments (u, p, rc): the session is
\* reset, the credentials of the attempt are obtained and a frame is pushed
\* on frames. store is the secret store the attempt reads, shown the number
\* of password prompts so far, calls the calls of the keyring module so far.
EnterLogin(frames, store, shown, calls, u, p, rc, typedUser, typedPassword, getFails) ==
    LET eu == EnteredUsername(u, typedUser)
        got == IF UsesStore(p) THEN GetPassword(store, eu, getFails)
               ELSE [password |-> None, raised |-> FALSE]
        asked == Prompted(p, got.password)
        ep == EnteredPassword(p, got.password, typedPassword)
    IN  /\ cookies' = ClearedCookies
        /\ username' = ClearedUsername
        /\ storeCalls' = IF UsesStore(p) THEN calls \cup {"get"} ELSE calls
        /\ IF got.raised
           THEN /\ Raise("KeyringError")
                /\ prompts' = shown
           ELSE /\ stack' = Append(frames, Frame(u, p, rc, eu, ep, asked))
                /\ pc' = "attempt"
                /\ outcome' = "running"
                /\ prompts' = IF asked THEN shown + 1 ELSE shown

\* login() called with arguments that pass the checks of lines 340-350.
Login(u, p, rc) ==
    /\ pc = "idle"
    /\ call' = LoginCall(u, p, rc)
    /\ result' = NoObject
    /\ requests' = <<>>
    /\ accepted' = <<>>
    /\ wasLoggedIn' = is_logged_in
    /\ \E typedUser \in Typed(u), typedPassword \in Passwords,
          getFails \in KeyringFailures(p) :
          /\ EnterLogin(<<>>, keyring, 0, {}, u, p, rc, typedUser, typedPassword,
                        getFails)
          /\ keyringFailed' = getFails
    /\ UNCHANGED <<dsobjects, keyring, created, site, files, tree>>

\* login() called with an argument of a wrong type or retry_count < 1:
\* lines 340-350 raise before anything is touched.
LoginBadArguments ==
    /\ pc = "idle"
    /\ call' = [NoCall EXCEPT !.op = "login", !.retry_count = 0]
    /\ outcome' = "TypeError"
    /\ result' = NoObject
    /\ requests' = <<>>
    /\ prompts' = 0
    /\ accepted' = <<>>
    /\ wasLoggedIn' = is_logged_in
    /\ keyringFailed' = FALSE
    /\ storeCalls' = {}
    /\ pc' = "done"
    /\ UNCHANGED <<cookies, username, dsobjects, keyring, stack, created,
                   site, files, tree>>

\* What http_get() can end with (lines 221-237).
HttpGetErrors == {"HTTPError", "DocuShareParseError", "DocuShareSystemError",
                  "DocuShareNotAuthorizedError"}

\* A login() that posts the credential before it fetches the login page.
PostFirstRequests == <<"ApplyLogin", "Login", "challenge.js">>

\* login(), lines 379-405: the requests of one attempt, in order.
AttemptRequests == <<"Login", "challenge.js", "ApplyLogin">>

\* How one attempt of login() can go (lines 379-411), as the request it
\* gets to and what comes of it: the login page fails to load or to parse
\* (__open_and_parse_login_page, lines 461-477); the challenge script fails
\* to load or to evaluate (__challenge_response, lines 479-485); the POST
\* fails, or the site answers it and accepts or rejects the credential.
AttemptResults ==
    ({1} \X HttpGetErrors)
    \cup ({2} \X (HttpGetErrors \cup {"ScriptError"}))
    \cup ({3} \X {"HTTPError", "accept", "reject"})

\* A login() that retries an explicit password as it retries under ASK.
AfterRejectRetriesAll(rc, p) ==
    IF rc <= 1 THEN "raise"
    ELSE IF p = USE_STORED THEN "purge_and_retry"
    ELSE "retry"

\* login(), lines 411-430: what follows a rejected credential.
AfterReject(rc, p) ==
    IF rc <= 1 THEN "raise"
    ELSE IF p = USE_STORED THEN "purge_and_retry"
    ELSE IF p = ASK THEN "retry"
    ELSE "raise"

\* login(), lines 379-430: one attempt. The login page is fetched (the site
\* sets JSESSIONID with it), the challenge script is fetched and evaluated
\* and the credential is posted; the site sets AmberUser when it accepts the
\* credential. After a rejection login() raises or calls itself with
\* retry_count - 1, which resets the session and obtains new credentials.
Attempt ==
    /\ pc = "attempt"
    /\ LET f == stack[Len(stack)] IN
       \E r \in AttemptResults :
          /\ requests' = requests \o SubSeq(AttemptRequests, 1, r[1])
          /\ IF r[2] \notin {"accept", "reject"}
             THEN /\ Raise(r[2])
                  /\ cookies' = IF r[1] = 1 THEN cookies ELSE cookies \cup {JSESSIONID}
                  /\ UNCHANGED <<username, keyring, prompts, accepted, keyringFailed,
                                 storeCalls>>
             ELSE IF r[2] = "accept"
             THEN /\ cookies' = cookies \cup {JSESSIONID, AmberUser}
                  /\ accepted' = <<[username |-> f.entered_username,
                                    password |-> f.entered_password]>>
                  /\ pc' = "record"
                  /\ UNCHANGED <<username, keyring, stack, outcome, prompts,
                                 keyringFailed, storeCalls>>
             ELSE /\ UNCHANGED accepted
                  /\ LET next == AfterReject(f.retry_count, f.password) IN
                     IF next = "raise"
                     THEN /\ Raise("LoginError")
                          /\ cookies' = cookies \cup {JSESSIONID}
                          /\ UNCHANGED <<username, keyring, prompts, keyringFailed,
                                         storeCalls>>
                     ELSE \E delFails, getFails \in KeyringFailures(f.password),
                             typedUser \in Typed(f.username),
                             typedPassword \in Passwords :
                          LET del == IF next = "purge_and_retry"
                                     THEN DeletePassword(keyring, f.entered_username, delFails)
                                     ELSE [store |-> keyring, raised |-> FALSE]
                              calls == IF next = "purge_and_retry"
                                       THEN storeCalls \cup {"delete"}
                                       ELSE storeCalls
                          IN  /\ keyring' = del.store
                              /\ keyringFailed' = (keyringFailed \/ delFails \/ getFails)
                              /\ IF del.raised
                                 THEN /\ Raise("KeyringError")
                                      /\ cookies' = cookies \cup {JSESSIONID}
                                      /\ storeCalls' = calls
                                      /\ UNCHANGED <<username, prompts>>
                                 ELSE EnterLogin(stack, del.store, prompts, calls,
                                                 f.username, f.password,
                                                 f.retry_count - 1, typedUser,
                                                 typedPassword, getFails)
    /\ UNCHANGED <<dsobjects, call, result, created, wasLoggedIn, site, files,
                   tree>>

\* login(), line 433: the username this activation records.
RecordedUsername(f) == f.entered_username

\* login(), lines 433-438: the activation records its username, stores its
\* password under USE_STORED and returns; an outer activation that called it
\* from line 419 or 425 then goes on at line 433 itself.
RecordAndReturn ==
    /\ pc = "record"
    /\ LET f == stack[Len(stack)] IN
       \E setFails \in KeyringFailures(f.password) :
          LET set == IF UsesStore(f.password)
                     THEN SetPassword(keyring, f.entered_username,
                                      f.entered_password, setFails)
                     ELSE [store |-> keyring, raised |-> FALSE]
          IN  /\ username' = RecordedUsername(f)
              /\ keyring' = set.store
              /\ storeCalls' = IF UsesStore(f.password)
                               THEN storeCalls \cup {"set"} ELSE storeCalls
              /\ keyringFailed' = (keyringFailed \/ setFails)
              /\ IF set.raised
                 THEN Raise("KeyringError")
                 ELSE /\ stack' = SubSeq(stack, 1, Len(stack) - 1)
                      /\ pc' = IF Len(stack) = 1 THEN "done" ELSE "record"
                      /\ outcome' = IF Len(stack) = 1 THEN "returned" ELSE outcome
    /\ UNCHANGED <<cookies, dsobjects, call, result, requests, prompts,
                   accepted, created, wasLoggedIn, site, files, tree>>

(* ------------------------- handles and URLs --------------------------- *)

\* A string is a sequence of tokens: a word, the hyphen, a character.
DigitChars == <<"0", "1", "2", "3", "4", "5", "6", "7", "8", "9">>
IsDigit(c) == \E i \in DOMAIN DigitChars : DigitChars[i] = c
DigitValue(c) == (CHOOSE i \in DOMAIN DigitChars : DigitChars[i] = c) - 1

\* str(n) for an int n >= 0, as the f-string of Handle.identifier formats it.
RECURSIVE ToDigits(_)
ToDigits(n) ==
    IF n < 10 THEN <<DigitChars[n + 1]>>
    ELSE Append(ToDigits(n \div 10), DigitChars[(n % 10) + 1])

\* int(digits), leading zeros allowed.
RECURSIVE ToInt(_)
ToInt(digits) ==
    IF digits = <<>> THEN 0
    ELSE ToInt(SubSeq(digits, 1, Len(digits) - 1)) * 10
         + DigitValue(digits[Len(digits)])

\* The numbers of the handles the functions are applied to.
HandleNumbers == (0..MaxHandleNumber) \cup {100, 12345, 99999, 100000, 999999, 1000000}
NumberedHandles == [type : HandleType, number : HandleNumbers]

\* Handle.identifier (handle.py, lines 84-87)
identifier(h) == <<h.type, "-">> \o ToDigits(h.number)

\* An identifier padded with zeros as in 'Document-00012', and strings that
\* are not handles.
Padded(h) == <<h.type, "-", "0", "0">> \o ToDigits(h.number)
NotHandleStrings ==
    {<<>>, <<"Document">>, <<"Document", "-">>, <<"Document", "7">>,
     <<"Folder", "-", "7">>, <<"document", "-", "7">>,
     <<"Document", "-", "7", "x">>, <<"Document", "-", "-", "7">>,
     <<"x", "Document", "-", "7">>}
HandleStrings ==
    {identifier(h) : h \in NumberedHandles}
    \cup {Padded(h) : h \in NumberedHandles}
    \cup NotHandleStrings

\* re.match(f'^{handle_type.identifier}-([0-9]+)$', handle_str)
Matches(t, str) ==
    /\ Len(str) >= 3
    /\ str[1] = t /\ str[2] = "-"
    /\ \A i \in 3..Len(str) : IsDigit(str[i])

\* A from_str that builds every handle with the first type of the enum.
from_str_first_type(str) ==
    IF \E t \in HandleType : Matches(t, str)
    THEN [raised |-> FALSE,
          handle |-> [type |-> "Collection",
                      number |-> ToInt(SubSeq(str, 3, Len(str)))]]
    ELSE [raised |-> TRUE, handle |-> BadHandle]

\* Handle.from_str (handle.py, lines 89-115)
from_str(str) ==
    IF \E t \in HandleType : Matches(t, str)
    THEN [raised |-> FALSE,
          handle |-> [type |-> CHOOSE t \in HandleType : Matches(t, str),
                      number |-> ToInt(SubSeq(str, 3, Len(str)))]]
    ELSE [raised |-> TRUE, handle |-> BadHandle]

\* A URL: scheme and host, the segments of the path, and whether the path
\* ends with '/'. The base URLs DocuShare() is constructed with.
Url(o, p, s) == [origin |-> o, path |-> p, slash |-> s]
BaseUrls ==
    {Url("https://example.org", p, s) :
        p \in {<<>>, <<<<"docushare">>>>, <<<<"a">>, <<"docushare">>>>},
        s \in BOOLEAN}

\* A DocuShare() that keeps base_url as it is given.
base_url_as_given(given) == given

\* DocuShare.__init__, lines 163-173: base_url gets its trailing slash.
base_url(given) == Url(given.origin, given.path, TRUE)

\* urllib.parse.urljoin(base, rel) for a relative path rel without dots:
\* the last segment of base is replaced unless base ends with '/'.
urljoin(base, rel, slash) ==
    LET dir == IF base.slash \/ base.path = <<>> THEN base.path
               ELSE SubSeq(base.path, 1, Len(base.path) - 1)
    IN  Url(base.origin, dir \o rel, slash)

\* class Resource, and the resources url() needs a handle for.
Resource == {"DSWEB", "Login", "ApplyLogin", "Services", "History", "Get", "View"}

\* DocuShare.url, lines 268-304, of the session constructed with given.
\* hdl is a Handle, or BadHandle for anything that is not an instance of
\* Handle.
url(given, resource, hdl) ==
    LET base == base_url(given)
        dsweb == urljoin(base, <<<<"dsweb">>>>, TRUE)
        Returned(u) == [raised |-> "returned", url |-> u]
        Raised(e) == [raised |-> e, url |-> base]
    IN  CASE resource = None -> Returned(base)
          [] resource # None /\ resource \notin Resource -> Raised("TypeError")
          [] resource = "DSWEB" -> Returned(dsweb)
          [] resource = "Login" -> Returned(urljoin(dsweb, <<<<"Login">>>>, FALSE))
          [] resource = "ApplyLogin" ->
                Returned(urljoin(dsweb, <<<<"ApplyLogin">>>>, FALSE))
          [] resource = "Services" ->
                IF hdl = BadHandle THEN Raised("TypeError")
                ELSE Returned(urljoin(urljoin(dsweb, <<<<"Services">>>>, TRUE),
                                      <<identifier(hdl)>>, FALSE))
          [] resource = "History" ->
                IF hdl = BadHandle THEN Raised("TypeError")
                ELSE IF hdl.type # "Document" THEN Raised("ValueError")
                ELSE Returned(urljoin(urljoin(urljoin(dsweb, <<<<"ServicesLib">>>>, TRUE),
                                              <<identifier(hdl)>>, TRUE),
                                      <<<<"History">>>>, FALSE))
          [] resource = "Get" ->
                IF hdl = BadHandle THEN Raised("TypeError")
                ELSE IF hdl.type \notin {"Document", "Version"}
                THEN Raised("ValueError")
                ELSE Returned(urljoin(urljoin(dsweb, <<<<"Get">>>>, TRUE),
                                      <<identifier(hdl)>>, FALSE))
          [] resource = "View" ->
                IF hdl = BadHandle THEN Raised("TypeError")
                ELSE IF hdl.type # "Collection" THEN Raised("ValueError")
                ELSE Returned(urljoin(urljoin(dsweb, <<<<"View">>>>, TRUE),
                                      <<identifier(hdl)>>, FALSE))

\* What a caller can pass for handle_number: an int, or something that is
\* no int (a str, None, an object).
IntArgument(n) == [int |-> TRUE, value |-> n]
NotAnInt == [int |-> FALSE, value |-> 0]
NumberArguments ==
    {IntArgument(n) : n \in HandleNumbers \cup {0 - 1, 0 - 12345}} \cup {NotAnInt}

\* Handle.__init__ (handle.py, lines 61-72). handle_type is a HandleType,
\* or None for anything that is not one.
Handle(handle_type, handle_number) ==
    IF handle_type \notin HandleType
    THEN [raised |-> "TypeError", handle |-> BadHandle]
    ELSE IF ~handle_number.int
    THEN [raised |-> "TypeError", handle |-> BadHandle]
    ELSE IF handle_number.value < 0
    THEN [raised |-> "ValueError", handle |-> BadHandle]
    ELSE [raised |-> "returned",
          handle |-> [type |-> handle_type, number |-> handle_number.value]]

\* The values of Python the functions are given: an instance of a class,
\* which for Handle and HandleNode has a type and a number, and for str its
\* characters. id tells two instances apart.
PyValue(class, type, number, chars, id) ==
    [class |-> class, type |-> type, number |-> number, chars |-> chars, id |-> id]
HandleInstance(class, h, id) == PyValue(class, h.type, h.number, <<>>, id)
Str(chars) == PyValue("str", None, 0, chars, 0)
NotStrings ==
    {PyValue("NoneType", None, 0, <<>>, 0), PyValue("int", None, 12345, <<>>, 0),
     PyValue("object", None, 0, <<>>, 0)}
HandleOf(x) == [type |-> x.type, number |-> x.number]

\* isinstance(x, Handle): HandleNode is a subclass of Handle (line 126).
IsHandle(x) == x.class \in {"Handle", "HandleNode"}

\* Handle.from_str (lines 89-115) for any argument: re.match raises
\* TypeError when it is given no string. The Handle is a new instance.
from_str_of(x) ==
    IF x.class # "str" THEN [raised |-> "TypeError", value |-> x]
    ELSE IF from_str(x.chars).raised
    THEN [raised |-> "InvalidHandleError", value |-> x]
    ELSE [raised |-> "returned",
          value |-> HandleInstance("Handle", from_str(x.chars).handle, 1)]

\* handle(handle_str) (lines 6-23)
handle(x) ==
    IF IsHandle(x) THEN [raised |-> "returned", value |-> x]
    ELSE from_str_of(x)

\* hash() of a str: a number that depends on the characters only; two
\* strings can have the same.
HashModulus == 64
Code(c) ==
    CASE IsDigit(c) -> DigitValue(c)
      [] c = "-" -> 10
      [] c = "Collection" -> 11
      [] c = "Document" -> 12
      [] OTHER -> 13
RECURSIVE hash(_)
hash(chars) ==
    IF chars = <<>> THEN 0
    ELSE (31 * hash(SubSeq(chars, 1, Len(chars) - 1)) + Code(chars[Len(chars)]))
         % HashModulus

\* object.__hash__, which Handle would have without a __hash__ of its own:
\* it tells instances apart.
object__hash__(self) == self.id

\* Handle.__hash__ (lines 123-124)
Handle__hash__(self) == hash(identifier(HandleOf(self)))

\* Handle.__eq__ (lines 120-121)
Handle__eq__(self, obj) ==
    IsHandle(obj) /\ obj.type = self.type /\ obj.number = self.number

\* dict: whether key finds the entry stored under the key stored, as
\* `hdl in self.__dsobjects` does (docushare.py, line 706): the hashes are
\* the same and the keys are the same instance or equal.
Finds(stored, key) ==
    /\ Handle__hash__(stored) = Handle__hash__(key)
    /\ (stored = key \/ Handle__eq__(key, stored))

(* ---------------------------- handle trees ---------------------------- *)

Collection(number) == [type |-> "Collection", number |-> number]
Document(number) == [type |-> "Document", number |-> number]

\* The Collections and Documents of a site, and the objects each
\* Collection may list: its Documents and the next Collection.
SiteCollections == {Collection(100), Collection(200), Collection(300)}
SiteDocuments == {Document(101), Document(102), Document(201), Document(301)}
Listable(c) ==
    {d \in SiteDocuments : d.number \in (c.number + 1)..(c.number + 99)}
    \cup (IF c.number < 300 THEN {Collection(c.number + 100)} ELSE {})

\* The sequences of at most n distinct members of S: a Collection page lists
\* an object once.
SeqsUpTo(S, n) ==
    {l \in UNION {[1..k -> S] : k \in 0..n} :
        \A i, j \in DOMAIN l : l[i] = l[j] => i = j}

\* What the Collection pages of a site can list.
Listings ==
    {[c \in SiteCollections |->
         CASE c.number = 100 -> l1 [] c.number = 200 -> l2 [] OTHER -> l3] :
        l1 \in SeqsUpTo(Listable(Collection(100)), MaxChildren),
        l2 \in SeqsUpTo(Listable(Collection(200)), MaxChildren),
        l3 \in SeqsUpTo(Listable(Collection(300)), MaxChildren)}

\* The title and the file name the property page of an object gives.
Title(h) == <<"Title of">> \o identifier(h)
Filename(h) == <<"file">> \o ToDigits(h.number)

\* The cache once object() has loaded every object of the site:
\* CollectionObject(docushare, hdl, title, object_handles) and
\* DocumentObject(docushare, hdl, title, filename, ...).
LoadedObjects(listing) ==
    [h \in SiteCollections \cup SiteDocuments |->
        [id |-> 1, handle |-> h, title |-> Title(h), filename |-> Filename(h),
         object_handles |-> IF h \in SiteCollections THEN listing[h] ELSE <<>>]]

\* A tree is a function from its nodes to what each holds. A node is named
\* by its position: the root is <<>>, the i-th child of the node at pos is
\* Append(pos, i). NoNode is the parent of a node that has none.
NoNode == <<0>>
EmptyTree == [n \in {} |-> NoNode]

\* HandleNode.__init__ (handle.py, lines 137-139)
HandleNode(h) ==
    [handle |-> h, parent |-> NoNode, children |-> <<>>, readonly |-> TRUE]

\* HandleNode._pre_attach, _pre_detach (lines 141-147): whether they raise.
_pre_attach(node) == node._readonly_node
_pre_detach(node) == node._readonly_node

RECURSIVE Ancestors(_, _)
Ancestors(nodes, n) ==
    IF nodes[n].parent = NoNode THEN {}
    ELSE {nodes[n].parent} \cup Ancestors(nodes, nodes[n].parent)

\* node.parent = value (handle.py, lines 209-211, anytree's NodeMixin.parent):
\* nothing when value is the parent already; LoopError when value is the
\* node or below it; else the node is detached from its parent and attached
\* to value as its last child, each after its hook.
set_parent(nodes, n, value) ==
    LET old == nodes[n].parent
        Others(m) == m # n
        detached ==
            IF old = NoNode THEN nodes
            ELSE [nodes EXCEPT ![old].children = SelectSeq(@, Others),
                               ![n].parent = NoNode]
        attached ==
            IF value = NoNode THEN detached
            ELSE [detached EXCEPT ![value].children = Append(@, n),
                                  ![n].parent = value]
    IN  IF old = value THEN [raised |-> "returned", nodes |-> nodes]
        ELSE IF value # NoNode /\ (value = n \/ n \in Ancestors(nodes, value))
        THEN [raised |-> "LoopError", nodes |-> nodes]
        ELSE IF old # NoNode /\ _pre_detach([_readonly_node |-> nodes[n].readonly])
        THEN [raised |-> "RuntimeError", nodes |-> nodes]
        ELSE IF value # NoNode /\ _pre_attach([_readonly_node |-> nodes[n].readonly])
        THEN [raised |-> "RuntimeError", nodes |-> nodes]
        ELSE [raised |-> "returned", nodes |-> attached]

\* CollectionHandleNode.__init__, lines 305-308: each child is made
\* writable, given the new node as parent and made read-only again.
RECURSIVE AttachChildren(_, _, _)
AttachChildren(nodes, self, children) ==
    IF children = <<>> THEN nodes
    ELSE LET child == Head(children)
             writable == [nodes EXCEPT ![child].readonly = FALSE]
             set == set_parent(writable, child, self)
         IN  AttachChildren([set.nodes EXCEPT ![child].readonly = TRUE],
                            self, Tail(children))

\* CollectionHandleNode(number, children) (lines 297-308), the new node
\* named self.
CollectionHandleNode(nodes, self, number, children) ==
    AttachChildren(nodes @@ (self :> HandleNode(Collection(number))),
                   self, children)

\* CollectionObject.object_handle_tree (dsobject.py, lines 320-329) for the
\* Collection c, the root placed at pos; docushare[obj_hdl] finds every
\* object in cache.
RECURSIVE object_handle_tree(_, _, _)
RECURSIVE ChildTrees(_, _, _, _)
ChildTrees(cache, obj_handles, pos, i) ==
    IF i > Len(obj_handles) THEN EmptyTree
    ELSE (IF obj_handles[i].type = "Document"
          THEN Append(pos, i) :> HandleNode(Document(obj_handles[i].number))
          ELSE object_handle_tree(cache, obj_handles[i], Append(pos, i)))
         @@ ChildTrees(cache, obj_handles, pos, i + 1)
object_handle_tree(cache, c, pos) ==
    LET obj_handles == cache[c].object_handles IN
    CollectionHandleNode(ChildTrees(cache, obj_handles, pos, 1), pos, c.number,
                         [i \in 1..Len(obj_handles) |-> Append(pos, i)])

\* DocumentHandleNode.children (lines 252-255) and HandleNode.children
children(nodes, n) ==
    IF nodes[n].handle.type = "Document" THEN <<>> ELSE nodes[n].children

\* DocumentHandleNode.is_leaf (lines 271-276) and HandleNode.is_leaf
is_leaf(nodes, n) ==
    nodes[n].handle.type = "Document" \/ nodes[n].children = <<>>

\* anytree's PreOrderIter: the node, then the subtrees of its children in
\* the order of the list.
RECURSIVE PreOrder(_, _)
RECURSIVE PreOrderAll(_, _)
PreOrder(nodes, n) == <<n>> \o PreOrderAll(nodes, children(nodes, n))
PreOrderAll(nodes, ns) ==
    IF ns = <<>> THEN <<>>
    ELSE PreOrder(nodes, Head(ns)) \o PreOrderAll(nodes, Tail(ns))

\* anytree's leaves, without the filter of HandleNode.leaves.
anytree_leaves(nodes, n) ==
    LET IsLeaf(m) == is_leaf(nodes, m) IN SelectSeq(PreOrder(nodes, n), IsLeaf)

\* HandleNode.leaves (lines 199-202) and DocumentHandleNode.leaves
\* (lines 278-283)
leaves(nodes, n) ==
    LET Kept(m) == is_leaf(nodes, m) /\ nodes[m].handle.type # "Collection" IN
    IF nodes[n].handle.type = "Document" THEN <<n>>
    ELSE SelectSeq(PreOrder(nodes, n), Kept)

\* anytree's path: the nodes from the root down to the node.
RECURSIVE path_of(_, _)
path_of(nodes, n) ==
    IF nodes[n].parent = NoNode THEN <<n>>
    ELSE Append(path_of(nodes, nodes[n].parent), n)

(* ---------------------------- responses ------------------------------ *)

\* An <input> the page does not have, and one without a value attribute.
NoTag == "<no tag>"
NoValue == "<no value>"

\* What a response of the site is made of, as far as the client looks at it:
\* the HTTP status (ok: raise_for_status() passes; a failed connection counts
\* as not ok), whether Content-Type starts with text/html, whether an h1
\* contains 'Not Authorized', whether an h2 contains 'Not Found', the hidden
\* inputs dserrorcode and detail_message (their value, NoValue or NoTag),
\* whether Content-Length is declared and whether it reaches
\* size_for_progress_report.
Responses ==
    [status_ok : BOOLEAN, html : BOOLEAN,
     h1_not_authorized : BOOLEAN, h2_not_found : BOOLEAN,
     dserrorcode : {NoTag, NoValue, "", "E500"},
     detail_message : {NoTag, NoValue, "failed"},
     content_length : BOOLEAN, large : BOOLEAN]

\* A file of the site, served as such.
FileResponse ==
    [status_ok |-> TRUE, html |-> FALSE,
     h1_not_authorized |-> FALSE, h2_not_found |-> FALSE,
     dserrorcode |-> NoTag, detail_message |-> NoTag,
     content_length |-> TRUE, large |-> FALSE]

\* The body of a response, in the chunks iter_content() yields.
Body == <<"chunk 1", "chunk 2">>

\* A check for the page that looks at the HTTP status only.
is_not_found_status(r) == ~r.status_ok

\* parser.is_not_found_page
is_not_found_page(r) == r.html /\ r.h2_not_found

\* A check for the Not Authorized page that never finds it.
is_never_not_authorized(r) == FALSE

\* parser.is_not_authorized_page
is_not_authorized_page(r) == r.html /\ r.h1_not_authorized

\* tag['value'] if tag.has_attr('value') else '' (parser.py, lines 89-90)
ValueOf(tag) == IF tag = NoValue THEN "" ELSE tag

\* parser.parse_if_system_error_page: (None, None) for a page that is not
\* HTML or has neither input; with one input only, has_attr() is called on
\* None and raises.
parse_if_system_error_page(r) ==
    IF ~r.html \/ (r.dserrorcode = NoTag /\ r.detail_message = NoTag)
    THEN [raised |-> FALSE, error_code |-> None, error_message |-> None]
    ELSE IF r.dserrorcode = NoTag \/ r.detail_message = NoTag
    THEN [raised |-> TRUE, error_code |-> None, error_message |-> None]
    ELSE [raised |-> FALSE, error_code |-> ValueOf(r.dserrorcode),
          error_message |-> ValueOf(r.detail_message)]

\* `if error_code:` (docushare.py, line 231): None and '' are false.
Truthy(str) == str \notin {None, ""}

\* DocuShare.http_get, lines 221-237: "ok" when the response is returned,
\* the error raised otherwise.
http_get(r) ==
    LET parsed == parse_if_system_error_page(r) IN
    IF ~r.status_ok THEN "HTTPError"
    ELSE IF parsed.raised THEN "DocuShareParseError"
    ELSE IF Truthy(parsed.error_code) THEN "DocuShareSystemError"
    ELSE IF is_not_authorized_page(r) THEN "DocuShareNotAuthorizedError"
    ELSE "ok"

\* What the error http_get() raises carries (lines 229-235).
ErrorDetails(r, user, resource, h) ==
    LET parsed == parse_if_system_error_page(r) IN
    [error_code |-> parsed.error_code, error_message |-> parsed.error_message,
     username |-> user, url |-> <<resource, h>>]

\* A site that answers as it likes, and one that answers every request
\* with r.
AnySite == [fixed |-> FALSE, response |-> FileResponse]
SiteAnswering(r) == [fixed |-> TRUE, response |-> r]

\* The file system under the destination: no file there; the file open()
\* creates or truncates.
NoFiles == [path \in {} |-> <<>>]
EmptyFile == <<>>

\* The path a caller passes to download().
Destination == <<"test.bin">>

(* ------------------------- object, download --------------------------- *)

\* A check that lets every call through.
NoCheck == TRUE

\* __check_if_logged_in (lines 452-454).
CheckIfLoggedIn == is_logged_in

\* A call that touches neither the session nor the secret store.
Called(c) ==
    /\ pc = "idle"
    /\ pc' = "done"
    /\ call' = c
    /\ prompts' = 0
    /\ accepted' = <<>>
    /\ wasLoggedIn' = is_logged_in
    /\ keyringFailed' = FALSE
    /\ storeCalls' = {}
    /\ UNCHANGED <<cookies, username, keyring, stack, site>>

\* What loading and parsing one page can end with: http_get()'s errors and
\* the parse error of the page (lines 605-610, 636-641, 669-674).
PageResults == {"ok"} \cup HttpGetErrors

\* The same at the site s: what http_get() raises for its response, or the
\* page parses or does not.
PageLoads(s) ==
    IF ~s.fixed THEN PageResults
    ELSE IF http_get(s.response) = "ok" THEN {"ok", "DocuShareParseError"}
    ELSE {http_get(s.response)}

\* An object() that loads the property page only.
NoSecondPage(h) == <<>>

\* The page object() loads after the property page (lines 708-755).
SecondPage(h) ==
    CASE h.type = "Collection" -> <<"View">>
      [] h.type = "Document" -> <<"History">>
      [] OTHER -> <<>>

\* The cache after object() has constructed o for h (lines 715, 732, 748).
Cached(cache, h, o) == [x \in DOMAIN cache \cup {h} |-> IF x = h THEN o ELSE cache[x]]

\* The class of the object object() constructs for h (lines 715, 732, 748).
ObjectClass(h) ==
    CASE h.type = "Collection" -> "CollectionObject"
      [] h.type = "Document" -> "DocumentObject"
      [] OTHER -> "VersionObject"

\* The object object() constructs for h: a new instance each time.
NewObject(h) ==
    [id |-> created[h] + 1, handle |-> h, class |-> ObjectClass(h),
     version_handles |-> <<>>]

\* The links of the '#' column of a history page: to a Version, or to the
\* v_Document of a Document with one version.
VersionLink == [prefix |-> "Version", number |-> 0]
DocumentLink == [prefix |-> "v_Document", number |-> 0]
HistoryPages == {<<>>, <<VersionLink>>, <<DocumentLink>>, <<VersionLink, DocumentLink>>}

\* parser.parse_history_page: the handles of the links that match
\* 'Version-[0-9]+'.
parse_history_page(links) ==
    LET IsVersion(l) == l.prefix = "Version"
        kept == SelectSeq(links, IsVersion)
    IN  [i \in DOMAIN kept |-> [type |-> "Version", number |-> kept[i].number]]

\* What object() has of the history of h when it constructs the object:
\* the Version handles of a history page of a Document (line 729).
Histories(h) ==
    IF h.type = "Document" THEN {parse_history_page(links) : links \in HistoryPages}
    ELSE {<<>>}

\* An object() that puts h in the cache as soon as its property page is
\* there.
CachedAfterProperties(cache, h) == Cached(cache, h, NoObject)

\* The cache when object() raises: self.__dsobjects[hdl] is assigned after
\* the last page is loaded and the object constructed (lines 715, 732, 748).
CacheAfterRaise(cache, h) == cache

\* An operation ends: what it raised or that it returned, what it returned
\* and the requests it issued.
Ends(how, o, reqs) ==
    /\ outcome' = how
    /\ result' = o
    /\ requests' = reqs

\* object(hdl), lines 702-757, and ds[hdl] (__getitem__, line 760), which
\* calls it. On a cache miss the property page is loaded (r1), the
\* properties object() reads are looked up (hasProps) and, for a Collection
\* or a Document, a second page is loaded (r2).
Object(via, h) ==
    /\ Called([NoCall EXCEPT !.op = via, !.hdl = h])
    /\ UNCHANGED <<files, tree>>
    /\ IF ~CheckIfLoggedIn
       THEN Ends("NotLoggedIn", NoObject, <<>>) /\ UNCHANGED <<dsobjects, created>>
       ELSE IF h = BadHandle
       THEN Ends("InvalidHandleError", NoObject, <<>>) /\ UNCHANGED <<dsobjects, created>>
       ELSE IF h \in DOMAIN dsobjects
       THEN Ends("returned", dsobjects[h], <<>>) /\ UNCHANGED <<dsobjects, created>>
       ELSE \E r1 \in PageLoads(site) :
            IF r1 # "ok"
            THEN Ends(r1, NoObject, <<"Services">>) /\ UNCHANGED <<dsobjects, created>>
            ELSE \E hasProps \in BOOLEAN :
                 IF ~hasProps
                 THEN /\ Ends("KeyError", NoObject, <<"Services">>)
                      /\ dsobjects' = CacheAfterRaise(dsobjects, h)
                      /\ UNCHANGED created
                 ELSE \E r2 \in IF SecondPage(h) = <<>> THEN {"ok"} ELSE PageLoads(site) :
                      IF r2 # "ok"
                      THEN /\ Ends(r2, NoObject, <<"Services">> \o SecondPage(h))
                           /\ dsobjects' = CacheAfterRaise(dsobjects, h)
                           /\ UNCHANGED created
                      ELSE \E version_handles \in Histories(h) :
                           LET o == [NewObject(h) EXCEPT
                                        !.version_handles = version_handles]
                           IN  /\ Ends("returned", o, <<"Services">> \o SecondPage(h))
                               /\ dsobjects' = Cached(dsobjects, h, o)
                               /\ created' = [created EXCEPT ![h] = @ + 1]

\* download(), lines 543-574, once the response is there: whether
\* Content-Length is declared, whether tqdm can be imported, whether the
\* size reaches size_for_progress_report, and whether hdl is a string.
WriteFile(hasLength, tqdm, large, asString) ==
    IF tqdm /\ ~hasLength THEN "UnboundLocalError"
    ELSE IF tqdm /\ large /\ asString THEN "AttributeError"
    ELSE "returned"

\* A download() that opens the destination before it sends the request.
DownloadOpensFirst(r, tqdm, asString) ==
    IF http_get(r) # "ok"
    THEN [outcome |-> http_get(r),
          files |-> [path \in {Destination} |-> EmptyFile]]
    ELSE IF is_not_found_page(r)
    THEN [outcome |-> "DocuShareNotFoundError",
          files |-> [path \in {Destination} |-> EmptyFile]]
    ELSE LET how == WriteFile(r.content_length, tqdm, r.large, asString) IN
         [outcome |-> how,
          files |-> [path \in {Destination} |->
                        IF how = "returned" THEN Body ELSE EmptyFile]]

\* download(), lines 537-574, for the response r of the Get request: how
\* it ends and the file it leaves at path. open() (line 551) creates the
\* file before anything is written.
DownloadResult(r, tqdm, asString) ==
    IF http_get(r) # "ok"
    THEN [outcome |-> http_get(r), files |-> NoFiles]
    ELSE IF is_not_found_page(r)
    THEN [outcome |-> "DocuShareNotFoundError", files |-> NoFiles]
    ELSE LET how == WriteFile(r.content_length, tqdm, r.large, asString) IN
         [outcome |-> how,
          files |-> [path \in {Destination} |->
                        IF how = "returned" THEN Body ELSE EmptyFile]]

\* How download() can end once the Get request is sent (lines 537-574).
DownloadEndings ==
    {DownloadResult(r, tqdm, asString) :
        r \in Responses, tqdm \in BOOLEAN, asString \in BOOLEAN}

\* The same at the site s.
DownloadsAt(s) ==
    IF ~s.fixed THEN DownloadEndings
    ELSE {DownloadResult(s.response, tqdm, asString) :
             tqdm \in BOOLEAN, asString \in BOOLEAN}

\* What is at the destination before download() is called: nothing, or a
\* file of an earlier download.
OldBody == <<"old chunk">>
Destinations == {NoFiles, [path \in {Destination} |-> OldBody]}

\* download(hdl, path), lines 534-574. pathLike: Path(path) accepts path.
\* before: what is at the destination when it is called; open(path, 'wb')
\* creates the file or empties it.
Download(h, pathLike) ==
    \E before \in Destinations :
    /\ Called([op |-> "download", username |-> None, password |-> None,
               retry_count |-> 0, hdl |-> h, path_like |-> pathLike,
               before |-> before])
    /\ UNCHANGED <<dsobjects, created, tree>>
    /\ IF ~pathLike
       THEN Ends("TypeError", NoObject, <<>>) /\ files' = before
       ELSE IF ~CheckIfLoggedIn
       THEN Ends("NotLoggedIn", NoObject, <<>>) /\ files' = before
       ELSE IF h = BadHandle
       THEN Ends("InvalidHandleError", NoObject, <<>>) /\ files' = before
       ELSE IF h.type = "Collection"
       THEN Ends("ValueError", NoObject, <<>>) /\ files' = before
       ELSE \E end \in DownloadsAt(site) :
               /\ Ends(end.outcome, NoObject, <<"Get">>)
               /\ files' = IF end.files = NoFiles THEN before ELSE end.files

\* http_get(url), lines 221-237, for the URL of the property page of h: it
\* asks for no login.
HttpGet(h) ==
    /\ Called([NoCall EXCEPT !.op = "http_get", !.hdl = h])
    /\ UNCHANGED <<dsobjects, created, files, tree>>
    /\ \E r \in IF site.fixed THEN {site.response} ELSE Responses :
          Ends(http_get(r),
               IF http_get(r) = "ok" THEN NoObject
               ELSE ErrorDetails(r, username, "Services", h),
               <<"Services">>)

(* ------------------------ CollectionObject.download ------------------- *)

\* class CollectionDownloadOption
CHILD_DOCUMENTS == "CHILD_DOCUMENTS"
ALL_DESCENDANTS_DOCUMENTS_IN_ONE_DIRECTORY == "ALL_DESCENDANTS_DOCUMENTS_IN_ONE_DIRECTORY"
ALL_DESCENDANTS_IN_TREE_STRUCTURE == "ALL_DESCENDANTS_IN_TREE_STRUCTURE"
CollectionDownloadOption ==
    {CHILD_DOCUMENTS, ALL_DESCENDANTS_DOCUMENTS_IN_ONE_DIRECTORY,
     ALL_DESCENDANTS_IN_TREE_STRUCTURE}

\* destination_path, a directory.
DestinationPath == <<<<"downloads">>>>

\* Every Document below the Collection, as the leaves of its tree.
DescendantDocuments(cache, c) ==
    LET t == object_handle_tree(cache, c, <<>>)
        ls == leaves(t, <<>>)
    IN  [i \in 1..Len(ls) |-> t[ls[i]].handle]

\* download(), lines 371-372: the Documents the Collection lists itself.
ChildDocuments(cache, c) ==
    LET IsDocument(h) == h.type = "Document" IN
    SelectSeq(cache[c].object_handles, IsDocument)

\* download(), lines 385-389: the name of the directory of a Collection.
DirectoryName(cache, col, collection_title_as_directory_name) ==
    IF collection_title_as_directory_name THEN identifier(col)
    ELSE cache[col].title

\* download(), lines 368-393: the Documents to download and where to, in
\* order.
download_infos(cache, c, option, collection_title_as_directory_name) ==
    LET t == object_handle_tree(cache, c, <<>>)
        ls == leaves(t, <<>>)
        docs == ChildDocuments(cache, c)
        Info(doc, dir) == [doc |-> doc, path |-> Append(dir, cache[doc].filename)]
        Directory(n) ==
            LET p == path_of(t, n)
                between == SubSeq(p, 2, Len(p) - 1)
            IN  DestinationPath \o
                [i \in 1..Len(between) |->
                    DirectoryName(cache, t[between[i]].handle,
                                  collection_title_as_directory_name)]
    IN  CASE option = CHILD_DOCUMENTS ->
                [i \in 1..Len(docs) |-> Info(docs[i], DestinationPath)]
          [] option = ALL_DESCENDANTS_DOCUMENTS_IN_ONE_DIRECTORY ->
                [i \in 1..Len(ls) |-> Info(t[ls[i]].handle, DestinationPath)]
          [] option = ALL_DESCENDANTS_IN_TREE_STRUCTURE ->
                [i \in 1..Len(ls) |-> Info(t[ls[i]].handle, Directory(ls[i]))]

\* How DocuShare.download(doc_obj.handle, file_path) of line 409 can fail:
\* it is given a Handle.
FailedDownloads ==
    {end \in {DownloadResult(r, tqdm, FALSE) : r \in Responses, tqdm \in BOOLEAN} :
        end.outcome # "returned"}

\* CollectionObject.download (dsobject.py, lines 357-411) of the Collection
\* c. isFile: destination_path exists and is no directory. The Documents
\* are downloaded in order; the first download that raises ends the call.
CollectionDownload(c, option, collection_title_as_directory_name, isFile) ==
    /\ Called([op |-> "CollectionObject.download", hdl |-> c, option |-> option,
               collection_title_as_directory_name |->
                   collection_title_as_directory_name,
               is_file |-> isFile])
    /\ UNCHANGED <<dsobjects, created, tree>>
    /\ LET infos == download_infos(dsobjects, c, option,
                                   collection_title_as_directory_name)
           Gets(k) == [i \in 1..k |-> [resource |-> "Get", hdl |-> infos[i].doc]]
           Written(k) == [p \in {infos[i].path : i \in 1..k} |-> Body]
       IN  IF isFile
           THEN Ends("NotADirectoryError", <<>>, <<>>) /\ files' = NoFiles
           ELSE \/ /\ Ends("returned", [i \in 1..Len(infos) |-> infos[i].path],
                            Gets(Len(infos)))
                   /\ files' = Written(Len(infos))
                \/ \E k \in 1..Len(infos), end \in FailedDownloads :
                      /\ Ends(end.outcome, <<>>, Gets(k))
                      /\ files' = IF end.files = NoFiles THEN Written(k - 1)
                                  ELSE (infos[k].path :> EmptyFile) @@ Written(k - 1)

(* -------------------------- the handle tree --------------------------- *)

\* A node that is not of the tree: CollectionHandleNode(400).
Other == <<0, 0>>
WithOther(nodes) == nodes @@ (Other :> HandleNode(Collection(400)))

\* A call on the tree of the Collection c.
OnTree(c, op, n, value) ==
    Called([op |-> op, hdl |-> c, node |-> n, value |-> value])
    /\ UNCHANGED <<dsobjects, created, files>>

\* c.object_handle_tree, then leaves of one of its nodes.
Leaves(c) ==
    LET t == object_handle_tree(dsobjects, c, <<>>) IN
    \E n \in DOMAIN t :
       /\ OnTree(c, "leaves", n, NoNode)
       /\ tree' = t
       /\ Ends("returned",
               [i \in 1..Len(leaves(t, n)) |-> t[leaves(t, n)[i]].handle], <<>>)

\* c.object_handle_tree, then node.parent = value for one of its nodes and
\* a node of the tree, the other node or None.
SetParent(c) ==
    LET t == WithOther(object_handle_tree(dsobjects, c, <<>>)) IN
    \E n \in DOMAIN t \ {Other}, value \in DOMAIN t \cup {NoNode} :
       LET set == set_parent(t, n, value) IN
       /\ OnTree(c, "set_parent", n, value)
       /\ tree' = set.nodes
       /\ Ends(set.raised, NoObject, <<>>)

\* c.object_handle_tree, then node.children = [] for one of its nodes: the
\* property HandleNode.children (lines 159-162) has no setter.
SetChildren(c) ==
    LET t == object_handle_tree(dsobjects, c, <<>>) IN
    \E n \in DOMAIN t :
       /\ OnTree(c, "set_children", n, NoNode)
       /\ tree' = t
       /\ Ends("AttributeError", NoObject, <<>>)

\* c.object_handle_tree, then CollectionHandleNode(400, [node]) for one of
\* its nodes.
NewCollection(c) ==
    LET t == object_handle_tree(dsobjects, c, <<>>) IN
    \E n \in DOMAIN t :
       /\ OnTree(c, "CollectionHandleNode", n, Other)
       /\ tree' = CollectionHandleNode(t, Other, 400, <<n>>)
       /\ Ends("returned", NoObject, <<>>)

(* ------------------- object_handle_tree, step by step ----------------- *)

\* A site where a Document and a Collection can be listed by two
\* Collections, and a Collection by one that is below it.
SharedDocument == Document(301)
LinkedListable(c) ==
    CASE c.number = 100 -> {SharedDocument, Collection(200), Collection(300)}
      [] c.number = 200 -> {SharedDocument, Collection(300)}
      [] OTHER -> {SharedDocument, Collection(100)}
LinkedListings ==
    {[c \in SiteCollections |->
         CASE c.number = 100 -> l1 [] c.number = 200 -> l2 [] OTHER -> l3] :
        l1 \in SeqsUpTo(LinkedListable(Collection(100)), MaxChildren),
        l2 \in SeqsUpTo(LinkedListable(Collection(200)), MaxChildren),
        l3 \in SeqsUpTo(LinkedListable(Collection(300)), MaxChildren)}

\* The children in reverse.
ChildNodesReversed(pos, n) == [k \in 1..n |-> Append(pos, n + 1 - k)]

\* object_handle_tree, lines 320-328: the list children of the node at pos,
\* one node for each of the n handles of object_handles, in their order.
ChildNodes(pos, n) == [k \in 1..n |-> Append(pos, k)]

\* An activation of object_handle_tree: the Collection, where its node goes
\* and the index in object_handles the loop of line 321 is at.
TreeFrame(c, pos, i) == [hdl |-> c, pos |-> pos, i |-> i]

\* collection.object_handle_tree is read: the property starts with an empty
\* list of children (line 320).
StartTree(c) ==
    /\ pc = "idle"
    /\ pc' = "build"
    /\ call' = [op |-> "object_handle_tree", hdl |-> c]
    /\ stack' = <<TreeFrame(c, <<>>, 1)>>
    /\ tree' = EmptyTree
    /\ outcome' = "running"
    /\ result' = NoObject
    /\ requests' = <<>>
    /\ prompts' = 0
    /\ accepted' = <<>>
    /\ wasLoggedIn' = is_logged_in
    /\ keyringFailed' = FALSE
    /\ storeCalls' = {}
    /\ UNCHANGED <<cookies, username, dsobjects, keyring, created, site, files>>

\* One step of the innermost activation (lines 321-329): the loop appends a
\* DocumentHandleNode for a Document, and for a Collection reads the
\* object_handle_tree of self.docushare[obj_hdl], a new activation, which
\* Python refuses with RecursionError once the stack is RecursionLimit deep;
\* after the loop the CollectionHandleNode is constructed and returned to
\* the activation that asked for it.
TreeStep ==
    /\ pc = "build"
    /\ LET f == stack[Len(stack)]
           listed == dsobjects[f.hdl].object_handles
           below == SubSeq(stack, 1, Len(stack) - 1)
           Advanced(frames) ==
               [frames EXCEPT ![Len(frames)].i = @ + 1]
       IN  IF f.i > Len(listed)
           THEN /\ tree' = CollectionHandleNode(tree, f.pos, f.hdl.number,
                                                ChildNodes(f.pos, Len(listed)))
                /\ IF below = <<>>
                   THEN /\ stack' = <<>>
                        /\ pc' = "done"
                        /\ outcome' = "returned"
                   ELSE /\ stack' = Advanced(below)
                        /\ UNCHANGED <<pc, outcome>>
           ELSE IF listed[f.i].type = "Document"
           THEN /\ tree' = tree @@ (Append(f.pos, f.i) :>
                                       HandleNode(Document(listed[f.i].number)))
                /\ stack' = Advanced(stack)
                /\ UNCHANGED <<pc, outcome>>
           ELSE IF Len(stack) >= RecursionLimit
           THEN /\ Raise("RecursionError")
                /\ UNCHANGED tree
           ELSE /\ stack' = Append(stack, TreeFrame(listed[f.i], Append(f.pos, f.i), 1))
                /\ UNCHANGED <<tree, pc, outcome>>
    /\ UNCHANGED <<cookies, username, dsobjects, keyring, call, result, requests,
                   prompts, accepted, created, wasLoggedIn, keyringFailed,
                   storeCalls, site, files>>

(* ------------------------------ close --------------------------------- *)

\* A close() that closes the connection and keeps the cookies.
CookiesKeptByClose == cookies

\* close(), line 766.
CookiesAfterClose == {}

\* A close() that drops the cached objects with the session.
CacheDroppedByClose == [h \in {} |-> NoObject]

\* close(), lines 766-769: the cache is not touched.
CacheAfterClose == dsobjects

\* close(), lines 762-769.
Close ==
    /\ pc = "idle"
    /\ cookies' = CookiesAfterClose
    /\ username' = None
    /\ call' = [NoCall EXCEPT !.op = "close"]
    /\ outcome' = "returned"
    /\ result' = NoObject
    /\ requests' = <<>>
    /\ prompts' = 0
    /\ accepted' = <<>>
    /\ wasLoggedIn' = is_logged_in
    /\ keyringFailed' = FALSE
    /\ storeCalls' = {}
    /\ dsobjects' = CacheAfterClose
    /\ pc' = "done"
    /\ UNCHANGED <<keyring, stack, created, site, files, tree>>

(* ----------------------------- the caller ------------------------------ *)

\* The caller has seen how the call ended and is ready for the next one:
\* what was recorded of the call is forgotten, the session is as it is. The
\* next download is given a destination of its own, and the handle tree is
\* dropped.
Continue ==
    /\ pc = "done"
    /\ pc' = "idle"
    /\ call' = NoCall
    /\ outcome' = "returned"
    /\ result' = NoObject
    /\ requests' = <<>>
    /\ prompts' = 0
    /\ accepted' = <<>>
    /\ wasLoggedIn' = FALSE
    /\ keyringFailed' = FALSE
    /\ storeCalls' = {}
    /\ files' = NoFiles
    /\ tree' = EmptyTree
    /\ UNCHANGED <<cookies, username, dsobjects, keyring, stack, created, site>>

(* --------------------------- specification ---------------------------- *)

Init ==
    /\ cookies = {}
    /\ username = None
    /\ dsobjects = [h \in {} |-> NoObject]
    /\ keyring \in [Users -> Passwords \cup {None}]
    /\ stack = <<>>
    /\ pc = "idle"
    /\ call = NoCall
    /\ outcome = "returned"
    /\ result = NoObject
    /\ requests = <<>>
    /\ prompts = 0
    /\ accepted = <<>>
    /\ created = [h \in Handles |-> 0]
    /\ wasLoggedIn = FALSE
    /\ keyringFailed = FALSE
    /\ storeCalls = {}
    /\ site = AnySite
    /\ files = NoFiles
    /\ tree = EmptyTree

Next ==
    \/ \E u \in UsernameArguments, p \in PasswordOption \cup ExplicitPasswords,
          rc \in 1..MaxRetry : Login(u, p, rc)
    \/ LoginBadArguments
    \/ Attempt
    \/ RecordAndReturn
    \/ Close
    \/ Continue
    \/ \E via \in {"object", "getitem"}, h \in HandleInputs : Object(via, h)
    \/ \E h \in HandleInputs, pathLike \in BOOLEAN : Download(h, pathLike)

Spec == Init /\ [][Next]_vars

\* A session that has logged in, at a site that answers every request with
\* one response.
SiteInit ==
    /\ cookies = {JSESSIONID, AmberUser}
    /\ username \in Users
    /\ dsobjects = [h \in {} |-> NoObject]
    /\ keyring = [u \in Users |-> None]
    /\ stack = <<>>
    /\ pc = "idle"
    /\ call = NoCall
    /\ outcome = "returned"
    /\ result = NoObject
    /\ requests = <<>>
    /\ prompts = 0
    /\ accepted = <<>>
    /\ created = [h \in Handles |-> 0]
    /\ wasLoggedIn = FALSE
    /\ keyringFailed = FALSE
    /\ storeCalls = {}
    /\ \E r \in Responses : site = SiteAnswering(r)
    /\ files = NoFiles
    /\ tree = EmptyTree

SiteNext ==
    \/ \E h \in Handles : HttpGet(h)
    \/ \E via \in {"object", "getitem"}, h \in HandleInputs : Object(via, h)
    \/ \E h \in HandleInputs, pathLike \in BOOLEAN : Download(h, pathLike)
    \/ Continue

SiteSpec == SiteInit /\ [][SiteNext]_vars

\* A call of a function that touches nothing of the session.
Applied(c, how, o) ==
    /\ Called(c)
    /\ Ends(how, o, <<>>)
    /\ UNCHANGED <<dsobjects, created, files, tree>>

\* h.identifier
IdentifierOf(h) ==
    Applied([op |-> "identifier", hdl |-> h], "returned", identifier(h))

\* Handle.from_str(str)
FromStr(str) ==
    LET parsed == from_str(str) IN
    Applied([op |-> "from_str", str |-> str],
            IF parsed.raised THEN "InvalidHandleError" ELSE "returned",
            parsed.handle)

\* DocuShare(given).url(resource, hdl)
UrlOf(given, resource, hdl) ==
    LET got == url(given, resource, hdl) IN
    Applied([op |-> "url", base_url |-> given, resource |-> resource, hdl |-> hdl],
            got.raised,
            IF got.raised = "returned" THEN got.url ELSE NoObject)

\* What handle() and Handle.from_str are given, and the handles objects are
\* cached under.
HandleArguments ==
    {Str(chars) : chars \in HandleStrings} \cup NotStrings
    \cup {HandleInstance(class, h, 2) :
             class \in {"Handle", "HandleNode"}, h \in NumberedHandles}
CachedHandles == [type : HandleType, number : {1, 2}]
LookedUpHandles == [type : HandleType, number : 0..MaxHandleNumber]

\* Handle(handle_type, handle_number)
NewHandle(handle_type, handle_number) ==
    LET made == Handle(handle_type, handle_number) IN
    Applied([op |-> "Handle", handle_type |-> handle_type,
             handle_number |-> handle_number],
            made.raised, made.handle)

\* handle(x)
HandleFunction(x) ==
    Applied([op |-> "handle", x |-> x], handle(x).raised, handle(x).value)

\* Handle.from_str(x)
FromStrOf(x) ==
    Applied([op |-> "Handle.from_str", x |-> x],
            from_str_of(x).raised, from_str_of(x).value)

\* The instances that stand for a handle: one that handle() parsed from a
\* string, one that was constructed from type and number, and a node of a
\* handle tree.
InstancesOf(h) ==
    {from_str_of(Str(identifier(h))).value, HandleInstance("Handle", h, 2),
     HandleInstance("HandleNode", h, 3)}

\* An object is cached under the key stored; then `key in self.__dsobjects`.
Lookup(stored, key) ==
    Applied([op |-> "lookup", stored |-> stored, key |-> key], "returned",
            IF Finds(stored, key) THEN "hit" ELSE "miss")

\* A session as constructed, with an empty secret store.
HandleInit == Init /\ keyring = [u \in Users |-> None]

HandleNext ==
    \/ \E h \in NumberedHandles : IdentifierOf(h)
    \/ \E str \in HandleStrings : FromStr(str)
    \/ \E given \in BaseUrls, resource \in Resource \cup {None, "Wiki"},
          hdl \in NumberedHandles \cup {BadHandle} : UrlOf(given, resource, hdl)
    \/ \E handle_type \in HandleType \cup {None},
          handle_number \in NumberArguments : NewHandle(handle_type, handle_number)
    \/ \E x \in HandleArguments : HandleFunction(x)
    \/ \E x \in HandleArguments : FromStrOf(x)
    \/ \E g \in CachedHandles, h \in LookedUpHandles :
          \E stored \in InstancesOf(g), key \in InstancesOf(h) : Lookup(stored, key)
    \/ Continue

HandleSpec == HandleInit /\ [][HandleNext]_vars

\* A session that has logged in and loaded every object of a site.
TreeInit ==
    /\ cookies = {JSESSIONID, AmberUser}
    /\ username \in {"alice"}
    /\ \E listing \in Listings : dsobjects = LoadedObjects(listing)
    /\ keyring = [u \in Users |-> None]
    /\ stack = <<>>
    /\ pc = "idle"
    /\ call = NoCall
    /\ outcome = "returned"
    /\ result = NoObject
    /\ requests = <<>>
    /\ prompts = 0
    /\ accepted = <<>>
    /\ created = [h \in Handles |-> 0]
    /\ wasLoggedIn = FALSE
    /\ keyringFailed = FALSE
    /\ storeCalls = {}
    /\ site = AnySite
    /\ files = NoFiles
    /\ tree = EmptyTree

TreeNext ==
    \/ \E c \in SiteCollections : Leaves(c)
    \/ \E c \in SiteCollections : SetParent(c)
    \/ \E c \in SiteCollections : SetChildren(c)
    \/ \E c \in SiteCollections : NewCollection(c)
    \/ \E c \in SiteCollections, option \in CollectionDownloadOption,
          byTitle \in BOOLEAN, isFile \in BOOLEAN :
          CollectionDownload(c, option, byTitle, isFile)
    \/ Continue

TreeSpec == TreeInit /\ [][TreeNext]_vars

\* A session that has logged in and loaded every object of a site whose
\* Collections are linked; an activation of object_handle_tree that can
\* take a step takes it.
LinkedInit ==
    /\ cookies = {JSESSIONID, AmberUser}
    /\ username \in {"alice"}
    /\ \E listing \in LinkedListings : dsobjects = LoadedObjects(listing)
    /\ keyring = [u \in Users |-> None]
    /\ stack = <<>>
    /\ pc = "idle"
    /\ call = NoCall
    /\ outcome = "returned"
    /\ result = NoObject
    /\ requests = <<>>
    /\ prompts = 0
    /\ accepted = <<>>
    /\ created = [h \in Handles |-> 0]
    /\ wasLoggedIn = FALSE
    /\ keyringFailed = FALSE
    /\ storeCalls = {}
    /\ site = AnySite
    /\ files = NoFiles
    /\ tree = EmptyTree

LinkedNext ==
    \/ \E c \in SiteCollections : StartTree(c)
    \/ TreeStep
    \/ Continue

LinkedSpec == LinkedInit /\ [][LinkedNext]_vars /\ WF_vars(TreeStep)

(* ------------------------------ claims -------------------------------- *)

\* How often the last operation requested the resource.
Count(resource) == Cardinality({i \in DOMAIN requests : requests[i] = resource})

\* login() has ended.
LoginDone == pc = "done" /\ call.op = "login"

\* login() has returned normally.
LoginReturned == LoginDone /\ outcome = "returned"

\* The session is LoggedOut.
LoggedOut == ~is_logged_in /\ username = None

\* C1: whenever login() with USE_STORED returns normally and no keyring call
\* failed, the secret store holds, for the username the site accepted, the
\* password the site accepted.
C1_StoredPasswordIsTheAcceptedOne ==
    (LoginReturned /\ call.password = USE_STORED /\ ~keyringFailed)
        => keyring[accepted[1].username] = accepted[1].password

\* C2: when login() with USE_STORED and retry_count n submits the stored
\* password first, every credential is rejected and no keyring call fails,
\* then n credentials were posted, the entry of the stored password is gone
\* and login() raises the login error. Stated of the step that ends login().
C2_RejectedStoredPasswordIsPurged ==
    [][(/\ pc = "attempt" /\ pc' = "done"
        /\ call.password = USE_STORED
        /\ ~stack[1].prompted
        /\ accepted' = <<>>
        /\ ~keyringFailed'
        /\ outcome' \notin HttpGetErrors \cup {"ScriptError"})
       => (/\ outcome' = "LoginError"
           /\ Count("ApplyLogin")' = call.retry_count
           /\ keyring'[stack[1].entered_username] = None)]_vars

\* C3: whenever login() returns normally, the session is logged in and
\* username is the username the site accepted.
C3_UsernameIsTheAcceptedOne ==
    LoginReturned => is_logged_in /\ username = accepted[1].username

C5_ExplicitPasswordIsNotRetried ==
    (call.op = "login" /\ call.password \in ExplicitPasswords)
        => /\ Count("ApplyLogin") <= 1
           /\ Count("Login") <= 1
           /\ prompts = 0
           /\ Len(stack) <= 1
           /\ (/\ pc = "done" /\ Count("ApplyLogin") = 1
               /\ accepted = <<>> /\ outcome # "HTTPError")
              => outcome = "LoginError"

\* C5 witness: an explicit password was rejected with retries left.
C5_Witness ==
    /\ LoginDone /\ call.password \in ExplicitPasswords
    /\ call.retry_count >= 2
    /\ outcome = "LoginError" /\ Count("ApplyLogin") = 1

\* C6: object(h), ds[h] and download(h, path), called with a path on a
\* session that is not logged in, raise the precondition error and issue no
\* HTTP request.
C6_NotLoggedInIsRefused ==
    (/\ pc = "done" /\ call.op \in {"object", "getitem", "download"}
     /\ call.path_like /\ ~is_logged_in)
        => outcome = "NotLoggedIn" /\ requests = <<>>

\* C6 witness: object(h) is refused for a handle that is in the cache.
C6_Witness ==
    /\ pc = "done" /\ call.op = "object" /\ ~is_logged_in
    /\ call.hdl \in DOMAIN dsobjects
    /\ outcome = "NotLoggedIn"

C8_CacheEntriesAreKept ==
    [][/\ \A h \in DOMAIN dsobjects :
             h \in DOMAIN dsobjects' /\ dsobjects'[h] = dsobjects[h]
       /\ (/\ pc = "idle" /\ call'.op \in {"object", "getitem"}
           /\ is_logged_in /\ call'.hdl \in DOMAIN dsobjects)
          => /\ outcome' = "returned"
             /\ result' = dsobjects[call'.hdl]
             /\ requests' = <<>>
       /\ (/\ pc = "idle" /\ call'.op \in {"object", "getitem"}
           /\ outcome' = "returned")
          => /\ call'.hdl \in DOMAIN dsobjects'
             /\ result' = dsobjects'[call'.hdl]]_vars

\* C8 witness: after a close() and a login as bob, ds[h] returns the one
\* object constructed for h without a request.
C8_Witness ==
    /\ pc = "done" /\ call.op = "getitem" /\ outcome = "returned"
    /\ requests = <<>> /\ result.id = 1 /\ username = "bob"
    /\ \A h \in Handles : h \in DOMAIN dsobjects

\* C9: login() never raises a keyring failure and never submits a missing
\* password; it returns normally exactly when the site accepted a
\* credential, and raises the login error only after the site rejected
\* every credential it was allowed to try.
C9_KeyringFailuresAreSwallowed ==
    /\ outcome # "KeyringError"
    /\ \A i \in DOMAIN stack : stack[i].entered_password \in Passwords
    /\ LoginDone =>
          /\ (outcome = "returned") = (accepted # <<>>)
          /\ outcome \in {"returned", "LoginError", "TypeError", "ScriptError"}
                         \cup HttpGetErrors
          /\ outcome = "LoginError" =>
                Count("ApplyLogin") =
                    IF call.password \in PasswordOption THEN call.retry_count ELSE 1

\* C9 witness: keyring calls failed and login() returned normally on a retry.
C9_Witness ==
    /\ LoginReturned /\ call.password = USE_STORED
    /\ keyringFailed /\ Count("ApplyLogin") >= 2

\* C10: a retry for the same username asks for the password.
C10_RetryPromptsAgain ==
    \A i \in DOMAIN stack :
        (i >= 2 /\ stack[i].entered_username = stack[i - 1].entered_username)
            => stack[i].prompted

\* An operation has ended after a request that the site answered with its
\* one response.
Answered(ops) ==
    /\ pc = "done" /\ call.op \in ops
    /\ site.fixed /\ requests # <<>>

\* The response carries neither hidden input of the system error page.
NoErrorFields(r) == r.dserrorcode = NoTag /\ r.detail_message = NoTag

\* C11 as stated: download() raises DocuShareNotFoundError whenever the
\* response to its Get request, HTTP status ok, is an HTML page with an h2
\* heading containing 'Not Found'.
C11_NotFoundHeadingRaises ==
    (/\ Answered({"download"})
     /\ site.response.status_ok
     /\ site.response.html /\ site.response.h2_not_found)
        => outcome = "DocuShareNotFoundError"

\* C11, amended: download() raises DocuShareNotFoundError whenever the
\* response to its Get request, HTTP status ok, is an HTML page with an h2
\* heading containing 'Not Found' that has no h1 heading containing
\* 'Not Authorized' and neither hidden input of the system error page.
C11_NotFoundPageRaises ==
    (/\ Answered({"download"})
     /\ site.response.status_ok
     /\ site.response.html /\ site.response.h2_not_found
     /\ ~site.response.h1_not_authorized
     /\ NoErrorFields(site.response))
        => outcome = "DocuShareNotFoundError"

\* C11 witness: the Not Found page, HTTP status ok, answered the Get request
\* for a Document and download() raised.
C11_Witness ==
    /\ Answered({"download"}) /\ call.hdl.type = "Document"
    /\ site.response.status_ok
    /\ site.response.html /\ site.response.h2_not_found
    /\ ~site.response.h1_not_authorized
    /\ NoErrorFields(site.response)
    /\ requests = <<"Get">>
    /\ outcome = "DocuShareNotFoundError"

\* C12 as stated: object(h), ds[h], download(h, path) and http_get(url)
\* raise DocuShareNotAuthorizedError whenever the site answers their request,
\* HTTP status ok, with an HTML page with an h1 heading containing
\* 'Not Authorized'; nothing is cached for h, so that a repeated call asks
\* the site again.
C12_NotAuthorizedHeadingRaises ==
    (/\ Answered({"object", "getitem", "download", "http_get"})
     /\ site.response.status_ok
     /\ site.response.html /\ site.response.h1_not_authorized)
        => /\ outcome = "DocuShareNotAuthorizedError"
           /\ call.hdl \notin DOMAIN dsobjects

\* C12, amended: the same for a Not Authorized page that has neither hidden
\* input of the system error page.
C12_NotAuthorizedPageRaises ==
    (/\ Answered({"object", "getitem", "download", "http_get"})
     /\ site.response.status_ok
     /\ site.response.html /\ site.response.h1_not_authorized
     /\ NoErrorFields(site.response))
        => /\ outcome = "DocuShareNotAuthorizedError"
           /\ call.hdl \notin DOMAIN dsobjects

\* C12 witness: ds[h] for a Version met the Not Authorized page.
C12_Witness ==
    /\ Answered({"getitem"}) /\ call.hdl.type = "Version"
    /\ site.response.status_ok
    /\ site.response.html /\ site.response.h1_not_authorized
    /\ NoErrorFields(site.response)
    /\ requests = <<"Services">>
    /\ outcome = "DocuShareNotAuthorizedError"

\* C13: http_get(url) raises DocuShareSystemError with the code, the message
\* (a missing value attribute read as ''), the username and the URL for
\* every HTML response, HTTP status ok, that has both hidden inputs
\* dserrorcode and detail_message; object(h) and ds[h] raise it too.
C13_SystemErrorPageRaises ==
    (/\ Answered({"http_get", "object", "getitem"})
     /\ site.response.status_ok /\ site.response.html
     /\ site.response.dserrorcode # NoTag
     /\ site.response.detail_message # NoTag)
        => /\ outcome = "DocuShareSystemError"
           /\ call.op = "http_get" =>
                 result = [error_code |-> ValueOf(site.response.dserrorcode),
                           error_message |-> ValueOf(site.response.detail_message),
                           username |-> username,
                           url |-> <<"Services", call.hdl>>]

\* C14: on a logged-in session download(hdl, path) for a Document or a
\* Version, answered with a response, HTTP status ok, that has no
\* 'Not Authorized' h1, no 'Not Found' h2 and neither hidden input of the
\* system error page, returns normally and leaves the complete body at path.
C14_DownloadWritesTheBody ==
    (/\ Answered({"download"})
     /\ site.response.status_ok
     /\ ~site.response.h1_not_authorized /\ ~site.response.h2_not_found
     /\ NoErrorFields(site.response))
        => /\ outcome = "returned"
           /\ files = [path \in {Destination} |-> Body]

\* The kinds of handle url() permits for a resource, and where the resource
\* is below the base URL.
Permitted(resource) ==
    CASE resource = "Services" -> {"Collection", "Document", "Version"}
      [] resource = "History" -> {"Document"}
      [] resource = "Get" -> {"Document", "Version"}
      [] resource = "View" -> {"Collection"}
      [] OTHER -> {}
Below(resource, h) ==
    CASE resource = "Login" -> <<<<"dsweb">>, <<"Login">>>>
      [] resource = "ApplyLogin" -> <<<<"dsweb">>, <<"ApplyLogin">>>>
      [] resource = "Services" -> <<<<"dsweb">>, <<"Services">>, identifier(h)>>
      [] resource = "History" ->
            <<<<"dsweb">>, <<"ServicesLib">>, identifier(h), <<"History">>>>
      [] resource = "Get" -> <<<<"dsweb">>, <<"Get">>, identifier(h)>>
      [] resource = "View" -> <<<<"dsweb">>, <<"View">>, identifier(h)>>

\* C19: url(resource, handle) is a function of base_url, resource and
\* handle: for Login and ApplyLogin, and for Services, History, Get and
\* View with a handle of a permitted kind, it returns base_url (ending with
\* '/') followed by the path of the resource; with a handle of another kind
\* it raises ValueError and returns nothing.
C19_UrlOfResource ==
    (/\ pc = "done" /\ call.op = "url"
     /\ call.resource \in Resource \ {"DSWEB"}
     /\ call.hdl # BadHandle)
        => IF \/ call.resource \in {"Login", "ApplyLogin"}
              \/ call.hdl.type \in Permitted(call.resource)
           THEN /\ outcome = "returned"
                /\ result = Url(call.base_url.origin,
                                call.base_url.path \o Below(call.resource, call.hdl),
                                FALSE)
           ELSE /\ outcome = "ValueError"
                /\ result = NoObject

\* C19 witness: the History URL of a Document below a base URL given
\* without its trailing slash.
C19_Witness ==
    /\ pc = "done" /\ call.op = "url" /\ outcome = "returned"
    /\ call.resource = "History" /\ call.hdl # BadHandle
    /\ call.hdl.number = 12345
    /\ ~call.base_url.slash /\ Len(call.base_url.path) = 2
    /\ Len(result.path) = 6

\* C20: Handle.from_str(Handle(kind, number).identifier) is
\* Handle(kind, number), for every kind and number: within the digit
\* capacity of the kind and beyond.
C20_IdentifierRoundTrip ==
    /\ (pc = "done" /\ call.op = "identifier")
          => from_str(result) = [raised |-> FALSE, handle |-> call.hdl]
    /\ (pc = "done" /\ call.op = "from_str")
          => \A h \in NumberedHandles :
                call.str = identifier(h) => outcome = "returned" /\ result = h

\* C20 witness: the identifier of the last Collection within five digits.
C20_Witness ==
    /\ pc = "done" /\ call.op = "identifier"
    /\ call.hdl = [type |-> "Collection", number |-> 99999]
    /\ result = <<"Collection", "-", "9", "9", "9", "9", "9">>

\* A finished call of CollectionObject.download with one of the options, its
\* destination a directory.
Downloaded(options) ==
    /\ pc = "done"
    /\ call.op = "CollectionObject.download"
    /\ call.option \in options
    /\ ~call.is_file

\* The paths destination_path / d1 / ... / dk / filename of the Documents
\* below the Collection c, read off the listings: dir is the directory of c,
\* and the directory of a listed Collection is named by its title when
\* byTitle and by its identifier otherwise.
RECURSIVE Mirrored(_, _, _)
RECURSIVE MirroredFrom(_, _, _, _)
Mirrored(c, dir, byTitle) == MirroredFrom(dsobjects[c].object_handles, 1, dir, byTitle)
MirroredFrom(listed, i, dir, byTitle) ==
    IF i > Len(listed) THEN <<>>
    ELSE (IF listed[i].type = "Document"
          THEN <<Append(dir, dsobjects[listed[i]].filename)>>
          ELSE Mirrored(listed[i],
                        Append(dir, IF byTitle THEN dsobjects[listed[i]].title
                                    ELSE identifier(listed[i])),
                        byTitle))
         \o MirroredFrom(listed, i + 1, dir, byTitle)

\* C15: with ALL_DESCENDANTS_IN_TREE_STRUCTURE, a download that returns has
\* placed every descendant Document at destination_path / d1 / ... / dk /
\* filename, the directories named by the titles of the Collections between
\* when collection_title_as_directory_name is True and by their identifiers
\* when it is False.
C15_TreeStructureDirectories ==
    (Downloaded({ALL_DESCENDANTS_IN_TREE_STRUCTURE}) /\ outcome = "returned")
    => LET expected == Mirrored(call.hdl, DestinationPath,
                                call.collection_title_as_directory_name)
       IN  /\ result = expected
           /\ DOMAIN files = {expected[i] : i \in DOMAIN expected}

\* The Documents a Collection lists itself, and the Documents below it
\* through the Collections it lists, both read off the listings in order.
RECURSIVE DirectFrom(_, _)
DirectFrom(listed, i) ==
    IF i > Len(listed) THEN <<>>
    ELSE (IF listed[i].type = "Document" THEN <<listed[i]>> ELSE <<>>)
         \o DirectFrom(listed, i + 1)
RECURSIVE DocumentsBelow(_)
RECURSIVE BelowFrom(_, _)
DocumentsBelow(h) ==
    IF h.type = "Document" THEN <<h>> ELSE BelowFrom(dsobjects[h].object_handles, 1)
BelowFrom(listed, i) ==
    IF i > Len(listed) THEN <<>>
    ELSE DocumentsBelow(listed[i]) \o BelowFrom(listed, i + 1)

\* The Documents the finished download was to fetch.
Wanted ==
    IF call.option = CHILD_DOCUMENTS
    THEN DirectFrom(dsobjects[call.hdl].object_handles, 1)
    ELSE DocumentsBelow(call.hdl)

\* C16: with CHILD_DOCUMENTS a download fetches exactly the Documents the
\* Collection lists itself, with ALL_DESCENDANTS_DOCUMENTS_IN_ONE_DIRECTORY
\* every Document below it, each placed directly in destination_path; it
\* returns one path per Document in listing order, and when there is no such
\* Document it returns the empty list, raises nothing and downloads nothing.
C16_ChildAndOneDirectory ==
    Downloaded({CHILD_DOCUMENTS, ALL_DESCENDANTS_DOCUMENTS_IN_ONE_DIRECTORY})
    => LET paths == [i \in DOMAIN Wanted |->
                        Append(DestinationPath, dsobjects[Wanted[i]].filename)]
       IN  /\ outcome = "returned" =>
                 /\ result = paths
                 /\ requests = [i \in DOMAIN Wanted |->
                                   [resource |-> "Get", hdl |-> Wanted[i]]]
                 /\ DOMAIN files = {paths[i] : i \in DOMAIN paths}
           /\ Wanted = <<>> =>
                 /\ outcome = "returned"
                 /\ result = <<>>
                 /\ requests = <<>>
                 /\ files = NoFiles

\* Both options have acted on a Collection that lists a Document and a
\* Collection with a Document of its own, and on one without Documents.
C16_Witness ==
    /\ Downloaded({CHILD_DOCUMENTS})
    /\ outcome = "returned"
    /\ call.hdl = Collection(100)
    /\ dsobjects[Collection(100)].object_handles = <<Document(101), Collection(200)>>
    /\ dsobjects[Collection(200)].object_handles = <<Document(201)>>
    /\ result = <<Append(DestinationPath, Filename(Document(101)))>>
    /\ DOMAIN files = {Append(DestinationPath, Filename(Document(101)))}

\* The handle the listings put at the position pos below the Collection c.
RECURSIVE HandleAt(_, _)
HandleAt(c, pos) ==
    IF pos = <<>> THEN c
    ELSE HandleAt(dsobjects[c].object_handles[Head(pos)], Tail(pos))

\* C17: leaves of a node of the handle tree of a Collection are the Document
\* nodes of its subtree, depth first in the order the children are listed,
\* and never a Collection, not even one without children.
C17_LeavesAreTheDocuments ==
    (pc = "done" /\ call.op = "leaves")
    => /\ outcome = "returned"
       /\ result = DocumentsBelow(HandleAt(call.hdl, call.node))
       /\ \A i \in DOMAIN result : result[i].type = "Document"

\* Collection-100 lists Document-101 and Collection-200, which lists
\* Document-201 and the empty Collection-300: the leaves of the root are
\* Document-101 and Document-201.
C17_Witness ==
    /\ pc = "done"
    /\ call.op = "leaves"
    /\ call.hdl = Collection(100)
    /\ call.node = <<>>
    /\ dsobjects[Collection(100)].object_handles = <<Document(101), Collection(200)>>
    /\ dsobjects[Collection(200)].object_handles = <<Document(201), Collection(300)>>
    /\ dsobjects[Collection(300)].object_handles = <<>>
    /\ result = <<Document(101), Document(201)>>

\* C18: every attempt to give a node of a constructed handle tree a new
\* parent, or to detach it from its parent, raises an error about the
\* structure and leaves the parent and the children of every node as they
\* were.
C18_TreeIsReadOnly ==
    (pc = "done" /\ call.op \in {"set_parent", "CollectionHandleNode"})
    => LET built == object_handle_tree(dsobjects, call.hdl, <<>>) IN
       call.value # built[call.node].parent
       => /\ outcome \in {"RuntimeError", "LoopError"}
          /\ \A n \in DOMAIN built :
                /\ tree[n].parent = built[n].parent
                /\ tree[n].children = built[n].children

\* The digits a handle of the kind is written with and the greatest number
\* they can hold.
Width(type) == IF type = "Version" THEN 6 ELSE 5
Capacity(type) == IF type = "Version" THEN 999999 ELSE 99999

\* The number n written with at least width digits, zeros in front.
RECURSIVE ZeroPadded(_, _)
ZeroPadded(n, width) ==
    IF Len(ToDigits(n)) >= width THEN ToDigits(n)
    ELSE <<"0">> \o ZeroPadded(n, width - 1)

\* C21: the identifier of a Handle is the name of its kind, a hyphen and
\* the number padded with zeros to the width of the kind (Collection 5,
\* Document 5, Version 6).
C21_IdentifierIsZeroPadded ==
    (pc = "done" /\ call.op = "identifier"
        /\ call.hdl.number <= Capacity(call.hdl.type))
    => result = <<call.hdl.type, "-">>
                \o ZeroPadded(call.hdl.number, Width(call.hdl.type))

\* C22: Handle(kind, number) raises ValueError for a negative number and
\* for a number above the capacity of the kind, and constructs the Handle
\* for every number in range.
C22_NumberInRange ==
    (pc = "done" /\ call.op = "Handle"
        /\ call.handle_type \in HandleType /\ call.handle_number.int)
    => LET n == call.handle_number.value IN
       IF n < 0 \/ n > Capacity(call.handle_type)
       THEN outcome = "ValueError"
       ELSE /\ outcome = "returned"
            /\ result = [type |-> call.handle_type, number |-> n]

\* A handle string as the claim has it: the name of a kind, a hyphen and
\* exactly as many digits as the kind is written with.
WellFormed(chars) ==
    \E t \in HandleType : Matches(t, chars) /\ Len(chars) = 2 + Width(t)

\* What the claim has handle(x) and Handle.from_str(x) do for an x that is
\* no Handle.
Parses(x) ==
    CASE x.class # "str" -> outcome = "TypeError"
      [] x.class = "str" /\ ~WellFormed(x.chars) -> outcome = "InvalidHandleError"
      [] OTHER -> /\ outcome = "returned"
                  /\ IsHandle(result)
                  /\ result.type = x.chars[1]
                  /\ result.number = ToInt(SubSeq(x.chars, 3, Len(x.chars)))

\* C23: handle(x) returns x itself when x is a Handle and the parsed Handle
\* when x is a well-formed handle string; it raises InvalidHandleError for
\* a string with a wrong prefix, digit count, separator or suffix, and
\* TypeError for an x that is neither; Handle.from_str does the same on
\* strings and on what is no string.
C23_HandleIsTotal ==
    /\ (pc = "done" /\ call.op = "handle")
          => IF IsHandle(call.x) THEN outcome = "returned" /\ result = call.x
             ELSE Parses(call.x)
    /\ (pc = "done" /\ call.op = "Handle.from_str" /\ ~IsHandle(call.x))
          => Parses(call.x)

\* C24: two Handles are equal iff they have the same kind and the same
\* number, and equal Handles have equal hashes, so that a Handle parsed
\* from a string, one built from kind and number and a node of a tree find
\* the cache entry stored under any of them, and no other.
C24_EqualHandlesShareAnEntry ==
    (pc = "done" /\ call.op = "lookup")
    => LET same == call.stored.type = call.key.type
                   /\ call.stored.number = call.key.number
       IN  /\ Handle__eq__(call.stored, call.key) <=> same
           /\ Handle__eq__(call.key, call.stored) <=> same
           /\ same => Handle__hash__(call.stored) = Handle__hash__(call.key)
           /\ result = "hit" <=> same

\* The entry stored under the Handle parsed from 'Document-2' is found by
\* the node of a tree for Document-2.
C24_Witness ==
    /\ pc = "done" /\ call.op = "lookup"
    /\ call.stored = HandleInstance("Handle", Document(2), 1)
    /\ call.key = HandleInstance("HandleNode", Document(2), 3)
    /\ result = "hit"

\* object(h) or ds[h] is called in this step.
ObjectCalled == pc = "idle" /\ call'.op \in {"object", "getitem"}

\* The requests the claim has object(h) issue on a cache miss.
MissRequests(h) ==
    CASE h.type = "Document" -> <<"Services", "History">>
      [] h.type = "Collection" -> <<"Services", "View">>
      [] h.type = "Version" -> <<"Services">>

\* C25: on a cache miss in a logged-in session object(h) issues GET
\* Services(h) first and, when nothing raises, exactly one further GET for a
\* Document (History) or a Collection (View) and none for a Version; the
\* object it returns is of the kind of h, its handle is h, and the
\* version_handles of a Document object are all Version handles.
C25_MissLoadsThePages ==
    [][(/\ ObjectCalled /\ is_logged_in
        /\ call'.hdl \in Handles /\ call'.hdl \notin DOMAIN dsobjects)
       => LET h == call'.hdl IN
          /\ requests' # <<>> /\ requests'[1] = "Services"
          /\ requests' \in {SubSeq(MissRequests(h), 1, n) :
                               n \in 1..Len(MissRequests(h))}
          /\ outcome' = "returned" =>
                /\ requests' = MissRequests(h)
                /\ result'.class = h.type \o "Object"
                /\ result'.handle = h
                /\ \A i \in DOMAIN result'.version_handles :
                      result'.version_handles[i].type = "Version"]_vars

\* object(h) has loaded a Document with a version from its two pages.
C25_Witness ==
    /\ pc = "done" /\ call.op = "object" /\ outcome = "returned"
    /\ call.hdl.type = "Document"
    /\ requests = <<"Services", "History">>
    /\ result.class = "DocumentObject"
    /\ result.version_handles = <<[type |-> "Version", number |-> 0]>>

\* C27: when object(h) raises, at whatever step, the cache afterwards has
\* no entry for h and every other entry is as it was.
C27_FailedObjectLeavesNoEntry ==
    [][(ObjectCalled /\ outcome' # "returned")
       => /\ call'.hdl \notin DOMAIN dsobjects'
          /\ \A g \in DOMAIN dsobjects \ {call'.hdl} :
                g \in DOMAIN dsobjects' /\ dsobjects'[g] = dsobjects[g]]_vars

\* C27, amended: when object(h) raises, at whatever step, the cache is as
\* it was before the call, so that an h without an entry has none
\* afterwards.
C27_FailedObjectLeavesTheCache ==
    [][(ObjectCalled /\ outcome' # "returned")
       => /\ dsobjects' = dsobjects
          /\ call'.hdl \notin DOMAIN dsobjects
                => call'.hdl \notin DOMAIN dsobjects']_vars

\* object(h) has raised for a Document whose property page loaded and whose
\* history page failed, while another object is in the cache.
C27_Witness ==
    /\ pc = "done" /\ call.op = "object" /\ outcome \in HttpGetErrors
    /\ call.hdl.type = "Document"
    /\ requests = <<"Services", "History">>
    /\ call.hdl \notin DOMAIN dsobjects
    /\ dsobjects # [h \in {} |-> NoObject]

\* The login page could not be parsed, or the challenge script could not be
\* evaluated, in the attempt of this step.
AttemptBroke ==
    /\ pc = "attempt"
    /\ outcome' \in {"DocuShareParseError", "ScriptError"}

\* C26: when in an attempt of login() the login page cannot be parsed or
\* the evaluation of the challenge script fails, login() raises at once: the
\* attempt posts no credential, no further attempt is made whatever
\* retry_count and the password policy, and no stored password is deleted.
C26_BrokenAttemptRaisesAtOnce ==
    [][AttemptBroke
       => /\ pc' = "done" /\ stack' = <<>>
          /\ Count("ApplyLogin")' = Count("ApplyLogin")
          /\ Len(requests') \in {Len(requests) + 1, Len(requests) + 2}
          /\ keyring' = keyring
          /\ storeCalls' = storeCalls]_vars

\* The challenge script failed in the second attempt of a login() with
\* USE_STORED that had an attempt left.
C26_Witness ==
    /\ LoginDone /\ outcome = "ScriptError"
    /\ call.password = USE_STORED /\ call.retry_count = 2
    /\ Count("ApplyLogin") = 1 /\ Count("challenge.js") = 2
    /\ Len(requests) = 5

\* C28: a login() with PasswordOption.ASK or with a password never reads,
\* writes or deletes an entry of the secret store, in any attempt and
\* however it ends; a login() that calls the keyring module is one with
\* USE_STORED.
C28_OnlyUseStoredTouchesTheStore ==
    [][/\ (call'.op = "login" /\ call'.password # USE_STORED)
          => storeCalls' = {} /\ keyring' = keyring
       /\ storeCalls' # {}
          => call'.op = "login" /\ call'.password = USE_STORED]_vars

\* A login() with ASK was rejected, asked again and was accepted, and a
\* password is stored that it left alone.
C28_Witness ==
    /\ LoginReturned /\ call.password = ASK
    /\ Count("ApplyLogin") = 2 /\ prompts = 2
    /\ storeCalls = {}
    /\ \E u \in Users : keyring[u] # None

\* C29: when download(h, path) raises because the session is not logged
\* in, the kind of h is not downloadable, or the response is a system error,
\* not authorized or not found page, the file at the destination is neither
\* created nor modified.
C29_RefusedDownloadLeavesTheFile ==
    (/\ pc = "done" /\ call.op = "download"
     /\ outcome \in {"NotLoggedIn", "ValueError", "DocuShareSystemError",
                     "DocuShareNotAuthorizedError", "DocuShareNotFoundError"})
    => files = call.before

\* The handle was not found while a file of an earlier download was at the
\* destination.
C29_Witness ==
    /\ pc = "done" /\ call.op = "download"
    /\ outcome = "DocuShareNotFoundError"
    /\ requests = <<"Get">>
    /\ call.before = [path \in {Destination} |-> OldBody]
    /\ files = call.before

\* The Collections a Collection lists, and those it reaches through at most
\* n listings.
ListedCollections(c) ==
    {dsobjects[c].object_handles[i] : i \in DOMAIN dsobjects[c].object_handles}
    \cap SiteCollections
RECURSIVE ReachedWithin(_, _)
ReachedWithin(c, n) ==
    IF n = 0 THEN {}
    ELSE ListedCollections(c)
         \cup UNION {ReachedWithin(d, n - 1) : d \in ListedCollections(c)}
Reached(c) == ReachedWithin(c, Cardinality(SiteCollections))

\* No Collection the construction from c comes to is reachable from itself.
Acyclic(c) == \A d \in {c} \cup Reached(c) : d \notin Reached(d)

\* The containment paths from the Collection at pos, as positions: the
\* position itself and the paths through each object it lists.
RECURSIVE PathsBelow(_, _)
PathsBelow(h, pos) ==
    IF h.type = "Document" THEN {pos}
    ELSE {pos} \cup UNION {PathsBelow(dsobjects[h].object_handles[i], Append(pos, i)) :
                              i \in DOMAIN dsobjects[h].object_handles}

\* The tree has one node per containment path from c, each with the handle
\* at the end of its path, its parent the node of the path without its last
\* step and its children the nodes of the objects it lists, in their order.
OneNodePerPath(c) ==
    /\ DOMAIN tree = PathsBelow(c, <<>>)
    /\ \A pos \in DOMAIN tree :
          LET h == HandleAt(c, pos) IN
          /\ tree[pos].handle = h
          /\ tree[pos].parent = IF pos = <<>> THEN NoNode
                                ELSE SubSeq(pos, 1, Len(pos) - 1)
          /\ tree[pos].children =
                IF h.type = "Document" THEN <<>>
                ELSE [k \in DOMAIN dsobjects[h].object_handles |-> Append(pos, k)]

\* object_handle_tree has ended.
TreeDone == pc = "done" /\ call.op = "object_handle_tree"

====
